---- MODULE Spec2Model ----
(***************************************************************************)
(* A state-machine model of the image editing core of GNOME Nano Image     *)
(* Edit (src/src/processor.py, class ImageProcessor), of the canvas        *)
(* handlers that write its fields directly (src/src/canvas.py) and of the  *)
(* window's key, clipboard, crop and tool handlers (src/src/window.py).    *)
(*                                                                         *)
(* A Cairo ARGB32 surface is a record [w, h, px]: px maps every pixel      *)
(* coordinate <<x, y>> of the w x h grid to a pixel value.  Pixel values   *)
(* are fully transparent ("clear") or one of the fully opaque colours, so  *)
(* Cairo's OVER operator is: an opaque source pixel replaces, a            *)
(* transparent one preserves the destination.  Coordinates are integers,   *)
(* anti-aliasing is left out: a shape covers a pixel when it covers the    *)
(* pixel's centre.                                                         *)
(***************************************************************************)
EXTENDS Integers, Sequences, FiniteSets, TLC

VARIABLES
    _original_surface,              \* processor.py:26
    _current_surface,               \* processor.py:27  the authoritative surface
    _floating_selection_data,       \* processor.py:28
    _selection_box,                 \* processor.py:29  <<>> is None, else <<x, y, w, h>>
    _floating_selection_position,   \* processor.py:30  <<>> is None, else <<x, y>>
    _brush_size,                    \* processor.py:31
    _text_size,                     \* processor.py:32
    _brush_color,                   \* processor.py:33
    _font_path,                     \* processor.py:34
    image_path,                     \* processor.py:35
    _undo_stack,                    \* processor.py:37  most recent last
    _redo_stack,                    \* processor.py:38  most recent last
    _is_cropping,                   \* processor.py:41
    _crop_pan_offset,               \* processor.py:42
    _drag_mode,                     \* canvas.py:75
    _stroke_points,                 \* canvas.py:70
    _active_resize_handle,          \* canvas.py:80  "None", else the handle's name
    _resize_start_size,             \* canvas.py:82  <<>> is None, else <<width, height>>
    _resize_anchor,                 \* canvas.py:83
    _canvas_resize_in_progress,     \* canvas.py:84
    clipboard_reads,                \* window.py:426  the read_texture_async calls not yet completed
    _current_tool,                  \* manager.py:22
    buffers,                        \* which surface objects the engine's references name
    last,                           \* history: the operation that ran last and its outcome
    seq,                            \* history: the current run of undoable operations, undos and redos
    rt,                             \* history: the surface and float a cut started from
    stroke,                         \* history: the brush gesture under way, or the last one
    doc,                            \* history: what the document held when create or load replaced it
    ret                             \* history: the surface the last call returned, if it returned one

engine == <<_original_surface, _current_surface, _floating_selection_data,
            _selection_box, _floating_selection_position, _brush_size,
            _text_size, _brush_color, _font_path, image_path, _undo_stack,
            _redo_stack, _is_cropping, _crop_pan_offset>>

vars == <<_original_surface, _current_surface, _floating_selection_data,
          _selection_box, _floating_selection_position, _brush_size,
          _text_size, _brush_color, _font_path, image_path, _undo_stack,
          _redo_stack, _is_cropping, _crop_pan_offset, _drag_mode,
          _stroke_points, _active_resize_handle, _resize_start_size,
          _resize_anchor, _canvas_resize_in_progress, clipboard_reads,
          _current_tool, buffers, last, seq, rt, stroke, doc, ret>>

\* The state outside the engine that the model follows: the fields of
\* CanvasWidget for a brush drag and for a drag of a canvas resize handle,
\* the clipboard reads that MainWindow has started, and the ToolManager's
\* active tool.
brushing == <<_drag_mode, _stroke_points>>

resizing == <<_active_resize_handle, _resize_start_size, _resize_anchor,
              _canvas_resize_in_progress>>

canvas == <<brushing, resizing, clipboard_reads, _current_tool>>

-----------------------------------------------------------------------------
(* Bounds of the model and program constants.                              *)

\* Largest width and height of a created, resized or pasted-in surface.
MaxDim == 2

\* In Spec, an operation that pushes a snapshot runs only while the undo
\* stack holds fewer than MaxHist entries.
MaxHist == 1

\* self._max_undo_steps
_max_undo_steps == 20

-----------------------------------------------------------------------------
(* Surfaces.                                                               *)

\* Python's None, for a surface-valued field.
None == [w |-> -1, h |-> -1, px |-> [p \in {} |-> "clear"]]

Coords(w, h) == (0 .. w - 1) \X (0 .. h - 1)

\* cairo.ImageSurface(cairo.FORMAT_ARGB32, w, h): a new surface is transparent.
ImageSurface(w, h) == [w |-> w, h |-> h, px |-> [p \in Coords(w, h) |-> "clear"]]

\* What a surface gives as a paint source at <<x, y>>: nothing outside itself.
PixelAt(s, x, y) ==
    IF x >= 0 /\ x < s.w /\ y >= 0 /\ y < s.h THEN s.px[<<x, y>>] ELSE "clear"

\* cairo.OPERATOR_OVER on one pixel.
Over(src, dst) == IF src = "clear" THEN dst ELSE src

\* ctx = cairo.Context(dst); ctx.set_source_surface(src, ox, oy); ctx.paint()
PaintSurface(dst, src, ox, oy) ==
    [dst EXCEPT !.px = [p \in Coords(dst.w, dst.h) |->
                           Over(PixelAt(src, p[1] - ox, p[2] - oy), dst.px[p])]]

\* ctx.set_source_rgba(color); ctx.paint()
PaintColor(dst, color) ==
    [dst EXCEPT !.px = [p \in Coords(dst.w, dst.h) |-> Over(color, dst.px[p])]]

\* ctx.set_source_rgba(color); <path>; ctx.fill() or ctx.stroke(), the path
\* covering the pixels of footprint.
FillPixels(dst, footprint, color) ==
    [dst EXCEPT !.px = [p \in Coords(dst.w, dst.h) |->
                           IF p \in footprint THEN Over(color, dst.px[p]) ELSE dst.px[p]]]

\* ctx.rectangle(x, y, w, h); ctx.set_operator(cairo.OPERATOR_CLEAR); ctx.fill()
ClearRect(dst, x, y, w, h) ==
    [dst EXCEPT !.px = [p \in Coords(dst.w, dst.h) |->
                           IF p[1] >= x /\ p[1] < x + w /\ p[2] >= y /\ p[2] < y + h
                           THEN "clear" ELSE dst.px[p]]]

_copy_surface(surface) ==
    IF surface = None THEN None
    ELSE PaintSurface(ImageSurface(surface.w, surface.h), surface, 0, 0)

\* The property current_image, on explicit fields.
CompositeImage(cur, data, pos) ==
    IF data # None THEN PaintSurface(_copy_surface(cur), data, pos[1], pos[2]) ELSE cur

current_image ==
    CompositeImage(_current_surface, _floating_selection_data, _floating_selection_position)

-----------------------------------------------------------------------------
(* Surface objects.  A field or a stack entry is a reference to a surface  *)
(* object, and two references may name the same object.  buffers gives the *)
(* object each reference names, as a number: orig for _original_surface,   *)
(* cur for _current_surface, undo and redo for the entries of the two      *)
(* stacks.  Only which references share an object matters, so the numbers  *)
(* are kept in the order in which the references first name them.          *)

\* The reference None.
NoBuffer == -1

NoBuffers == [orig |-> NoBuffer, cur |-> NoBuffer, undo |-> <<>>, redo |-> <<>>]

\* The objects in use.
Live(b) ==
    ({b.orig, b.cur} \cup {b.undo[i] : i \in DOMAIN b.undo}
                    \cup {b.redo[i] : i \in DOMAIN b.redo}) \ {NoBuffer}

\* A new object: cairo.ImageSurface(...) or _copy_surface(...).
Fresh(b) == CHOOSE n \in 0 .. Cardinality(Live(b)) : n \notin Live(b)

\* The same sharing, each object numbered by its first reference in the
\* order orig, cur, undo, redo.
Normalised(b) ==
    LET refs == <<b.orig, b.cur>> \o b.undo \o b.redo
        first(n) == CHOOSE i \in DOMAIN refs :
                        refs[i] = n /\ \A j \in 1 .. i - 1 : refs[j] # n
        rank(n) == IF n = NoBuffer THEN NoBuffer
                   ELSE Cardinality({m \in Live(b) : first(m) < first(n)})
    IN  [orig |-> rank(b.orig), cur |-> rank(b.cur),
         undo |-> [i \in DOMAIN b.undo |-> rank(b.undo[i])],
         redo |-> [i \in DOMAIN b.redo |-> rank(b.redo[i])]]

\* self._original_surface = surface; self._current_surface =
\* self._copy_surface(surface); self._undo_stack = []; self._redo_stack = []
\* where surface is a new object.
NewDocument(b) ==
    LET surface == Fresh(b)
        copy == Fresh([b EXCEPT !.orig = surface])
    IN  [orig |-> surface, cur |-> copy, undo |-> <<>>, redo |-> <<>>]

-----------------------------------------------------------------------------
(* The engine state as one record, so that a handler's calls compose.  A   *)
(* field is named as in the source, without the leading underscore.        *)

St == [original_surface |-> _original_surface,
       current_surface |-> _current_surface,
       floating_selection_data |-> _floating_selection_data,
       selection_box |-> _selection_box,
       floating_selection_position |-> _floating_selection_position,
       brush_size |-> _brush_size,
       text_size |-> _text_size,
       brush_color |-> _brush_color,
       font_path |-> _font_path,
       image_path |-> image_path,
       undo_stack |-> _undo_stack,
       redo_stack |-> _redo_stack,
       is_cropping |-> _is_cropping,
       crop_pan_offset |-> _crop_pan_offset,
       buffers |-> buffers]

\* The engine's fields after a handler: those of the record s.
Becomes(s) ==
    /\ _original_surface' = s.original_surface
    /\ _current_surface' = s.current_surface
    /\ _floating_selection_data' = s.floating_selection_data
    /\ _selection_box' = s.selection_box
    /\ _floating_selection_position' = s.floating_selection_position
    /\ _brush_size' = s.brush_size
    /\ _text_size' = s.text_size
    /\ _brush_color' = s.brush_color
    /\ _font_path' = s.font_path
    /\ image_path' = s.image_path
    /\ _undo_stack' = s.undo_stack
    /\ _redo_stack' = s.redo_stack
    /\ _is_cropping' = s.is_cropping
    /\ _crop_pan_offset' = s.crop_pan_offset
    /\ buffers' = Normalised(s.buffers)

\* A current_image that paints the floating selection onto the authoritative
\* surface itself.
get_current_image_in_place(s) ==
    LET image == CompositeImage(s.current_surface, s.floating_selection_data,
                                s.floating_selection_position)
    IN  [ret |-> image, st |-> [s EXCEPT !.current_surface = image]]

\* Reading the property current_image: the returned surface beside the
\* state, [ret, st].  The getter assigns no field.
get_current_image(s) ==
    [ret |-> CompositeImage(s.current_surface, s.floating_selection_data,
                            s.floating_selection_position),
     st |-> s]

\* list.pop(0)
PopFirst(stack) == SubSeq(stack, 2, Len(stack))

\* list.pop(): the list without its last element.
PopLast(stack) == SubSeq(stack, 1, Len(stack) - 1)

clear_floating_selection(s) ==
    [s EXCEPT !.floating_selection_data = None,
              !.selection_box = <<>>,
              !.floating_selection_position = <<>>]

\* A paste that drops the floating selection without painting it.
paste_selection_discarding(s) ==
    IF s.current_surface # None /\ s.floating_selection_data # None
    THEN clear_floating_selection(s)
    ELSE s

\* A paste that pushes an undo snapshot of its own before it paints.
paste_selection_saving(s) ==
    IF s.current_surface # None /\ s.floating_selection_data # None
    THEN clear_floating_selection(
             [s EXCEPT !.undo_stack = Append(@, _copy_surface(s.current_surface)),
                       !.buffers = [@ EXCEPT !.undo = Append(@, Fresh(s.buffers))],
                       !.current_surface =
                 PaintSurface(s.current_surface, s.floating_selection_data,
                              s.floating_selection_position[1],
                              s.floating_selection_position[2])])
    ELSE s

paste_selection(s) ==
    IF s.current_surface # None /\ s.floating_selection_data # None
    THEN clear_floating_selection(
             [s EXCEPT !.current_surface =
                 PaintSurface(s.current_surface, s.floating_selection_data,
                              s.floating_selection_position[1],
                              s.floating_selection_position[2])])
    ELSE s

\* A save_state that, at the cap, drops the newest snapshot, not the oldest.
save_state_evicting_newest(s) ==
    IF s.current_surface # None
    THEN LET pushed == Append(s.undo_stack, _copy_surface(s.current_surface))
             refs == Append(s.buffers.undo, Fresh(s.buffers))
         IN  [s EXCEPT !.undo_stack = IF Len(pushed) > _max_undo_steps
                                      THEN PopLast(pushed) ELSE pushed,
                       !.redo_stack = <<>>,
                       !.buffers = [@ EXCEPT !.undo = IF Len(refs) > _max_undo_steps
                                                      THEN PopLast(refs) ELSE refs,
                                             !.redo = <<>>]]
    ELSE s

\* A save_state that pushes the authoritative surface itself, not a copy.
save_state_sharing(s) ==
    IF s.current_surface # None
    THEN LET pushed == Append(s.undo_stack, s.current_surface)
             refs == Append(s.buffers.undo, s.buffers.cur)
         IN  [s EXCEPT !.undo_stack = IF Len(pushed) > _max_undo_steps
                                      THEN PopFirst(pushed) ELSE pushed,
                       !.redo_stack = <<>>,
                       !.buffers = [@ EXCEPT !.undo = IF Len(refs) > _max_undo_steps
                                                      THEN PopFirst(refs) ELSE refs,
                                             !.redo = <<>>]]
    ELSE s

\* A save_state that never evicts.
save_state_uncapped(s) ==
    IF s.current_surface # None
    THEN [s EXCEPT !.undo_stack = Append(s.undo_stack, _copy_surface(s.current_surface)),
                   !.redo_stack = <<>>,
                   !.buffers = [@ EXCEPT !.undo = Append(@, Fresh(s.buffers)),
                                         !.redo = <<>>]]
    ELSE s

\* A save_state that leaves the redo stack alone.
save_state_keeping_redo(s) ==
    IF s.current_surface # None
    THEN LET pushed == Append(s.undo_stack, _copy_surface(s.current_surface))
             refs == Append(s.buffers.undo, Fresh(s.buffers))
         IN  [s EXCEPT !.undo_stack = IF Len(pushed) > _max_undo_steps
                                      THEN PopFirst(pushed) ELSE pushed,
                       !.buffers = [@ EXCEPT !.undo = IF Len(refs) > _max_undo_steps
                                                      THEN PopFirst(refs) ELSE refs]]
    ELSE s

save_state(s) ==
    IF s.current_surface # None
    THEN LET pushed == Append(s.undo_stack, _copy_surface(s.current_surface))
             refs == Append(s.buffers.undo, Fresh(s.buffers))
         IN  [s EXCEPT !.undo_stack = IF Len(pushed) > _max_undo_steps
                                      THEN PopFirst(pushed) ELSE pushed,
                       !.redo_stack = <<>>,
                       !.buffers = [@ EXCEPT !.undo = IF Len(refs) > _max_undo_steps
                                                      THEN PopFirst(refs) ELSE refs,
                                             !.redo = <<>>]]
    ELSE s

\* An undo that pops the snapshot without installing it.
undo_without_restore(s) ==
    IF s.undo_stack # <<>>
    THEN [ok |-> TRUE,
          st |-> clear_floating_selection(
                     [s EXCEPT !.redo_stack = Append(s.redo_stack, _copy_surface(s.current_surface)),
                               !.undo_stack = PopLast(s.undo_stack),
                               !.buffers = [@ EXCEPT !.redo = Append(@, Fresh(s.buffers)),
                                                     !.undo = PopLast(@)]])]
    ELSE [ok |-> FALSE, st |-> s]

\* undo() and redo() return a flag beside the state: [ok, st].
undo(s) ==
    IF s.undo_stack # <<>>
    THEN [ok |-> TRUE,
          st |-> clear_floating_selection(
                     [s EXCEPT !.redo_stack = Append(s.redo_stack, _copy_surface(s.current_surface)),
                               !.current_surface = s.undo_stack[Len(s.undo_stack)],
                               !.undo_stack = PopLast(s.undo_stack),
                               !.buffers = [@ EXCEPT !.redo = Append(@, Fresh(s.buffers)),
                                                     !.cur = s.buffers.undo[Len(s.buffers.undo)],
                                                     !.undo = PopLast(@)]])]
    ELSE [ok |-> FALSE, st |-> s]

redo(s) ==
    IF s.redo_stack # <<>>
    THEN [ok |-> TRUE,
          st |-> clear_floating_selection(
                     [s EXCEPT !.undo_stack = Append(s.undo_stack, _copy_surface(s.current_surface)),
                               !.current_surface = s.redo_stack[Len(s.redo_stack)],
                               !.redo_stack = PopLast(s.redo_stack),
                               !.buffers = [@ EXCEPT !.undo = Append(@, Fresh(s.buffers)),
                                                     !.cur = s.buffers.redo[Len(s.buffers.redo)],
                                                     !.redo = PopLast(@)]])]
    ELSE [ok |-> FALSE, st |-> s]

\* A start_crop that drops a pending floating selection, not pasting it.
start_crop_dropping_float(s) ==
    [clear_floating_selection(s) EXCEPT !.is_cropping = TRUE, !.crop_pan_offset = <<0, 0>>]

start_crop(s) ==
    [paste_selection(s) EXCEPT !.is_cropping = TRUE, !.crop_pan_offset = <<0, 0>>]

\* A cancel_crop that leaves the pan offset where the drag put it.
cancel_crop_keeping_pan(s) ==
    [s EXCEPT !.is_cropping = FALSE, !.selection_box = <<>>]

cancel_crop(s) ==
    [s EXCEPT !.is_cropping = FALSE, !.selection_box = <<>>, !.crop_pan_offset = <<0, 0>>]

\* An apply_crop that leaves crop mode also when it has nothing to crop.
apply_crop_always_cancelling(s) ==
    IF s.current_surface # None /\ s.selection_box # <<>> /\ s.is_cropping
    THEN LET saved == save_state(s)
             new_surface == PaintSurface(ImageSurface(s.selection_box[3], s.selection_box[4]),
                                         saved.current_surface,
                                         -s.selection_box[1] + s.crop_pan_offset[1],
                                         -s.selection_box[2] + s.crop_pan_offset[2])
         IN  cancel_crop([saved EXCEPT !.current_surface = new_surface,
                                       !.buffers = [@ EXCEPT !.cur = Fresh(saved.buffers)]])
    ELSE cancel_crop(s)

\* A crop that takes the rect's size but not its origin.
apply_crop_from_origin(s) ==
    IF s.current_surface # None /\ s.selection_box # <<>> /\ s.is_cropping
    THEN LET saved == save_state(s)
             new_surface == PaintSurface(ImageSurface(s.selection_box[3], s.selection_box[4]),
                                         saved.current_surface,
                                         s.crop_pan_offset[1], s.crop_pan_offset[2])
         IN  cancel_crop([saved EXCEPT !.current_surface = new_surface,
                                       !.buffers = [@ EXCEPT !.cur = Fresh(saved.buffers)]])
    ELSE s

apply_crop(s) ==
    IF s.current_surface # None /\ s.selection_box # <<>> /\ s.is_cropping
    THEN LET saved == save_state(s)
             x == s.selection_box[1]
             y == s.selection_box[2]
             w == s.selection_box[3]
             h == s.selection_box[4]
             pan_x == s.crop_pan_offset[1]
             pan_y == s.crop_pan_offset[2]
             new_surface == PaintSurface(ImageSurface(w, h), saved.current_surface,
                                         -x + pan_x, -y + pan_y)
         IN  cancel_crop([saved EXCEPT !.current_surface = new_surface,
                                       !.buffers = [@ EXCEPT !.cur = Fresh(saved.buffers)]])
    ELSE s

\* A cut that lifts the pixels without clearing the source rectangle.
cut_selection_without_clear(s, selection_box) ==
    IF s.current_surface # None /\ selection_box # <<>>
    THEN LET saved == save_state(paste_selection(s))
             x == selection_box[1]
             y == selection_box[2]
             w == selection_box[3]
             h == selection_box[4]
         IN  [saved EXCEPT
                 !.selection_box = selection_box,
                 !.floating_selection_position = <<x, y>>,
                 !.floating_selection_data =
                     PaintSurface(ImageSurface(w, h), saved.current_surface, -x, -y)]
    ELSE s

\* A cut that takes its snapshot before it merges the pending float.
cut_selection_saving_before_merge(s, selection_box) ==
    IF s.current_surface # None /\ selection_box # <<>>
    THEN LET saved == paste_selection(save_state(s))
             x == selection_box[1]
             y == selection_box[2]
             w == selection_box[3]
             h == selection_box[4]
         IN  [saved EXCEPT
                 !.selection_box = selection_box,
                 !.floating_selection_position = <<x, y>>,
                 !.floating_selection_data =
                     PaintSurface(ImageSurface(w, h), saved.current_surface, -x, -y),
                 !.current_surface = ClearRect(saved.current_surface, x, y, w, h)]
    ELSE s

cut_selection(s, selection_box) ==
    IF s.current_surface # None /\ selection_box # <<>>
    THEN LET saved == save_state(paste_selection(s))
             x == selection_box[1]
             y == selection_box[2]
             w == selection_box[3]
             h == selection_box[4]
         IN  [saved EXCEPT
                 !.selection_box = selection_box,
                 !.floating_selection_position = <<x, y>>,
                 !.floating_selection_data =
                     PaintSurface(ImageSurface(w, h), saved.current_surface, -x, -y),
                 !.current_surface = ClearRect(saved.current_surface, x, y, w, h)]
    ELSE s

\* A copy that snapshots the surface as the destructive operations do.
copy_selection_saving(s, selection_box) ==
    IF s.current_surface # None /\ selection_box # <<>>
    THEN LET pasted == save_state(paste_selection(s))
         IN  [ret |-> PaintSurface(ImageSurface(selection_box[3], selection_box[4]),
                                   pasted.current_surface,
                                   -selection_box[1], -selection_box[2]),
              st |-> pasted]
    ELSE [ret |-> None, st |-> s]

\* copy_selection returns the copied surface (or None) beside the state: [ret, st].
copy_selection(s, selection_box) ==
    IF s.current_surface # None /\ selection_box # <<>>
    THEN LET pasted == paste_selection(s)
         IN  [ret |-> PaintSurface(ImageSurface(selection_box[3], selection_box[4]),
                                   pasted.current_surface,
                                   -selection_box[1], -selection_box[2]),
              st |-> pasted]
    ELSE [ret |-> None, st |-> s]

\* A set_floating_selection that replaces a pending float without pasting it.
set_floating_selection_dropping_prior(s, surface, x, y) ==
    [save_state(s) EXCEPT !.floating_selection_data = surface,
                          !.floating_selection_position = <<x, y>>]

set_floating_selection(s, surface, x, y) ==
    [save_state(paste_selection(s)) EXCEPT
        !.floating_selection_data = surface,
        !.floating_selection_position = <<x, y>>]

\* A move that sets the position also when no floating selection exists.
move_floating_selection_unguarded(s, x, y) ==
    [s EXCEPT !.floating_selection_position = <<x, y>>]

move_floating_selection(s, x, y) ==
    IF s.floating_selection_data # None
    THEN [s EXCEPT !.floating_selection_position = <<x, y>>]
    ELSE s

set_brush_size(s, size) == [paste_selection(s) EXCEPT !.brush_size = size]

set_brush_color(s, color) == [paste_selection(s) EXCEPT !.brush_color = color]

set_text_size(s, size) == [s EXCEPT !.text_size = size]

set_font_path(s, font_path) == [s EXCEPT !.font_path = font_path]

start_drawing(s) == save_state(s)

-----------------------------------------------------------------------------
(* Drawing.  A point is <<x, y>> in Cairo's image space, where pixel       *)
(* <<i, j>> is the unit square with corner <<i, j>> and centre             *)
(* <<i + 1/2, j + 1/2>>.  Distances are compared doubled and squared, in   *)
(* integers.                                                               *)

\* ctx.arc(x, y, brush_size / 2, 0, 2 pi): the pixels whose centre the disc covers.
DabFootprint(surface, point, size) ==
    {p \in Coords(surface.w, surface.h) :
        (2 * p[1] + 1 - 2 * point[1]) * (2 * p[1] + 1 - 2 * point[1])
        + (2 * p[2] + 1 - 2 * point[2]) * (2 * p[2] + 1 - 2 * point[2]) <= size * size}

\* A round-capped segment a-b of width size covers the pixels whose centre
\* is within size / 2 of the segment.
SegmentCovers(p, a, b, size) ==
    LET cx == 2 * p[1] + 1 - 2 * a[1]
        cy == 2 * p[2] + 1 - 2 * a[2]
        bx == 2 * b[1] - 2 * a[1]
        by == 2 * b[2] - 2 * a[2]
        t == cx * bx + cy * by
        len == bx * bx + by * by
    IN  IF len = 0 \/ t <= 0 THEN cx * cx + cy * cy <= size * size
        ELSE IF t >= len THEN (cx - bx) * (cx - bx) + (cy - by) * (cy - by) <= size * size
        ELSE (cx * cx + cy * cy) * len - t * t <= size * size * len

\* ctx.move_to(points[0]); ctx.line_to(point) for the others; ctx.stroke()
StrokeFootprint(surface, points, size) ==
    {p \in Coords(surface.w, surface.h) :
        \E i \in 1 .. Len(points) - 1 : SegmentCovers(p, points[i], points[i + 1], size)}

\* ctx.move_to(x, y); ctx.show_text(text): Cairo's rasteriser is not part of
\* this repository; each character of text inks the one pixel above the
\* baseline at its place, and an empty text inks nothing.
TextFootprint(surface, text, x, y) ==
    {p \in Coords(surface.w, surface.h) : p[2] = y - 1 /\ p[1] >= x /\ p[1] < x + Len(text)}

draw_brush_stroke(s, points) ==
    IF s.current_surface # None /\ Len(points) >= 2
    THEN [s EXCEPT !.current_surface =
             FillPixels(@, StrokeFootprint(@, points, s.brush_size), s.brush_color)]
    ELSE s

draw_brush_dab(s, point) ==
    IF s.current_surface # None
    THEN [save_state(s) EXCEPT !.current_surface =
             FillPixels(@, DabFootprint(@, point, s.brush_size), s.brush_color)]
    ELSE s

add_text(s, text, x, y) ==
    IF s.current_surface # None
    THEN [save_state(paste_selection(s)) EXCEPT !.current_surface =
             FillPixels(@, TextFootprint(@, text, x, y), s.brush_color)]
    ELSE s

Max(a, b) == IF a >= b THEN a ELSE b

\* An anchor offset with the two sides exchanged.
_compute_anchor_offset_mirrored(anchor, old_size, new_size) ==
    IF anchor \in {"right", "bottom"} THEN 0
    ELSE IF anchor \in {"left", "top"} THEN new_size - old_size
    ELSE (new_size - old_size) \div 2

\* An anchor offset whose centred case rounds towards zero.
_compute_anchor_offset_truncating(anchor, old_size, new_size) ==
    IF anchor \in {"left", "top"} THEN 0
    ELSE IF anchor \in {"right", "bottom"} THEN new_size - old_size
    ELSE IF new_size >= old_size THEN (new_size - old_size) \div 2
    ELSE -((old_size - new_size) \div 2)

_compute_anchor_offset(anchor, old_size, new_size) ==
    IF anchor \in {"left", "top"} THEN 0
    ELSE IF anchor \in {"right", "bottom"} THEN new_size - old_size
    ELSE (new_size - old_size) \div 2

resize_canvas(s, new_width, new_height, anchor, fill_color) ==
    IF s.current_surface = None THEN s
    ELSE LET saved == save_state(paste_selection(s))
             width == Max(1, new_width)
             height == Max(1, new_height)
             offset_x == _compute_anchor_offset(anchor[1], saved.current_surface.w, width)
             offset_y == _compute_anchor_offset(anchor[2], saved.current_surface.h, height)
         IN  [saved EXCEPT !.current_surface =
                 PaintSurface(PaintColor(ImageSurface(width, height), fill_color),
                              saved.current_surface, offset_x, offset_y),
                           !.buffers = [@ EXCEPT !.cur = Fresh(saved.buffers)]]

create_blank_image(s, width, height, color) ==
    LET surface == PaintColor(ImageSurface(width, height), color)
    IN  [clear_floating_selection(s) EXCEPT
            !.original_surface = surface,
            !.current_surface = _copy_surface(surface),
            !.image_path = "None",
            !.undo_stack = <<>>,
            !.redo_stack = <<>>,
            !.buffers = NewDocument(@)]

\* A load that keeps the history of the document it replaces.
load_image_keeping_history(s, filepath, decoded) ==
    IF decoded.ok
    THEN [clear_floating_selection(s) EXCEPT
            !.original_surface = decoded.surface,
            !.current_surface = _copy_surface(decoded.surface),
            !.image_path = filepath,
            !.buffers = [NewDocument(@) EXCEPT !.undo = s.buffers.undo,
                                               !.redo = s.buffers.redo]]
    ELSE clear_floating_selection(s)

\* decoded is what GdkPixbuf and Cairo make of the file: [ok |-> FALSE] when
\* new_from_file, save_to_bufferv or create_from_png fails (load_image then
\* raises), [ok |-> TRUE, surface |-> the ARGB32 surface] otherwise.
load_image(s, filepath, decoded) ==
    IF decoded.ok
    THEN [clear_floating_selection(s) EXCEPT
            !.original_surface = decoded.surface,
            !.current_surface = _copy_surface(decoded.surface),
            !.image_path = filepath,
            !.undo_stack = <<>>,
            !.redo_stack = <<>>,
            !.buffers = NewDocument(@)]
    ELSE clear_floating_selection(s)

save_image(s, filepath) ==
    IF s.current_surface # None
    THEN [paste_selection(s) EXCEPT !.image_path = filepath]
    ELSE s

-----------------------------------------------------------------------------
(* History variables.  last names the operation that ran last.  seq follows *)
(* a run of n operations that each pushed one undo snapshot, then the undo  *)
(* calls after it, then the redo calls after those; anything else ends the  *)
(* run.  seq.hadFloat tells whether a floating selection was pending when   *)
(* the run began, seq.afterUndo whether it began right after a successful   *)
(* undo().  rt remembers what a cut_selection, a set_floating_selection or  *)
(* a resize_canvas started from.  ret is the surface the last call         *)
(* returned.                                                               *)

SeqIdle ==
    [phase |-> "idle", n |-> 0, k |-> 0, oks |-> 0, r |-> 0, hadFloat |-> FALSE,
     afterUndo |-> FALSE, log |-> <<>>, post |-> None, postImage |-> None]

\* A specification that follows no runs starts with seq = SeqOff and keeps it.
SeqOff == [SeqIdle EXCEPT !.phase = "off"]

SeqEnd == IF seq.phase = "off" THEN seq ELSE SeqIdle

\* After an operation that pushed one snapshot: the run grows, or starts here.
SeqPush ==
    IF seq.phase = "off" THEN seq
    ELSE IF seq.phase = "ops"
    THEN [seq EXCEPT !.n = @ + 1, !.log = Append(@, _current_surface)]
    ELSE [SeqIdle EXCEPT !.phase = "ops", !.n = 1,
                         !.hadFloat = _floating_selection_data # None,
                         !.afterUndo = (last = "undo"),
                         !.log = <<_current_surface>>]

SeqAfter(pushed) == IF pushed THEN SeqPush ELSE SeqEnd

\* The undo calls that belong to the run: as many as it has operations, and
\* one more once it has more than _max_undo_steps of them.
UndoCalls == IF seq.n > _max_undo_steps THEN _max_undo_steps + 1 ELSE seq.n

SeqUndo(ok) ==
    IF seq.phase = "ops"
    THEN [seq EXCEPT !.phase = "undo", !.k = 1, !.oks = IF ok THEN 1 ELSE 0,
                     !.post = _current_surface, !.postImage = current_image]
    ELSE IF seq.phase = "undo" /\ seq.k < UndoCalls
    THEN [seq EXCEPT !.k = @ + 1, !.oks = IF ok THEN @ + 1 ELSE @]
    ELSE SeqEnd

SeqRedo(ok) ==
    IF seq.phase = "undo" /\ seq.k = seq.n /\ seq.n <= _max_undo_steps /\ ok
    THEN [seq EXCEPT !.phase = "redo", !.r = 1]
    ELSE IF seq.phase = "redo" /\ seq.r < seq.n /\ ok
    THEN [seq EXCEPT !.r = @ + 1]
    ELSE SeqEnd

RtNone ==
    [phase |-> "none", box |-> <<>>, args |-> <<>>, pre |-> None, data |-> None,
     pos |-> <<>>, undo |-> <<>>]

\* What a cut_selection ("cut"), a set_floating_selection ("set"), a
\* resize_canvas ("resize") or a start_crop ("crop") started from: the
\* surface, the floating selection and the undo stack before it, with the
\* rect of the cut or the rect marked when crop mode began (box), or the
\* arguments of the set and the resize (args).
RtStart(phase, box, args) ==
    [phase |-> phase, box |-> box, args |-> args, pre |-> _current_surface,
     data |-> _floating_selection_data, pos |-> _floating_selection_position,
     undo |-> _undo_stack]

\* After an undo(): it belongs to the cut or set when it comes right after it.
RtUndo(ok) ==
    IF ok /\ rt.phase = "cut" THEN [rt EXCEPT !.phase = "cut_undone"]
    ELSE IF ok /\ rt.phase = "set" THEN [rt EXCEPT !.phase = "set_undone"]
    ELSE RtNone

\* doc tells, right after create_blank_image or a successful load_image,
\* what the engine held just before the call.
DocNone ==
    [hadUndo |-> FALSE, hadRedo |-> FALSE, hadFloat |-> FALSE, hadBox |-> FALSE,
     wasCropping |-> FALSE, wasPanned |-> FALSE]

DocBefore ==
    [hadUndo |-> _undo_stack # <<>>, hadRedo |-> _redo_stack # <<>>,
     hadFloat |-> _floating_selection_data # None, hadBox |-> _selection_box # <<>>,
     wasCropping |-> _is_cropping, wasPanned |-> _crop_pan_offset # <<0, 0>>]

\* stroke follows one pointer gesture, a brush stroke or a drag of a canvas
\* resize handle (kind): the button press (phase "down", with pressed and
\* begun telling which of the two press handlers have run), the release
\* ("released") and an undo() right after it ("undone").  pre is the surface
\* before the press, pushes counts the snapshots pushed since, and segments
\* the drag-update events.
StrokeNone ==
    [phase |-> "none", kind |-> "none", pressed |-> FALSE, begun |-> FALSE,
     at |-> <<>>, pre |-> None, pushes |-> 0, segments |-> 0]

\* After an undo(): it belongs to the gesture when it comes right after the release.
StrokeUndo(ok) ==
    IF stroke.phase = "released" /\ ok THEN [stroke EXCEPT !.phase = "undone"]
    ELSE StrokeNone

-----------------------------------------------------------------------------
(* The operations.                                                         *)

Init ==
    /\ _original_surface = None
    /\ _current_surface = None
    /\ _floating_selection_data = None
    /\ _selection_box = <<>>
    /\ _floating_selection_position = <<>>
    /\ _brush_size = 10
    /\ _text_size = 20
    /\ _brush_color = "red"
    /\ _font_path = "None"
    /\ image_path = "None"
    /\ _undo_stack = <<>>
    /\ _redo_stack = <<>>
    /\ _is_cropping = FALSE
    /\ _crop_pan_offset = <<0, 0>>
    /\ _drag_mode = "none"
    /\ _stroke_points = <<>>
    /\ _active_resize_handle = "None"
    /\ _resize_start_size = <<>>
    /\ _resize_anchor = <<"left", "top">>
    /\ _canvas_resize_in_progress = FALSE
    /\ clipboard_reads = 0
    /\ _current_tool = "select"
    /\ buffers = NoBuffers
    /\ stroke = StrokeNone
    /\ doc = DocNone
    /\ ret = None
    /\ last = "init"
    /\ seq = SeqOff
    /\ rt = RtNone

CreateBlankImage(width, height, color) ==
    /\ Becomes(create_blank_image(St, width, height, color))
    /\ UNCHANGED canvas
    /\ stroke' = StrokeNone
    /\ doc' = DocBefore
    /\ ret' = None
    /\ last' = "create_blank_image"
    /\ seq' = SeqEnd
    /\ rt' = RtNone

LoadImage(filepath, decoded) ==
    /\ Becomes(load_image(St, filepath, decoded))
    /\ UNCHANGED canvas
    /\ stroke' = StrokeNone
    /\ doc' = IF decoded.ok THEN DocBefore ELSE DocNone
    /\ ret' = None
    /\ last' = IF decoded.ok THEN "load_image" ELSE "load_image_failed"
    /\ seq' = SeqEnd
    /\ rt' = RtNone

SaveImage(filepath) ==
    /\ Becomes(save_image(St, filepath))
    /\ UNCHANGED canvas
    /\ stroke' = StrokeNone
    /\ doc' = DocNone
    /\ ret' = None
    /\ last' = "save_image"
    /\ seq' = SeqEnd
    /\ rt' = RtNone

Undo ==
    LET res == undo(St)
    IN  /\ Becomes(res.st)
        /\ UNCHANGED canvas
        /\ stroke' = StrokeUndo(res.ok)
        /\ doc' = DocNone
        /\ ret' = None
        /\ last' = IF res.ok THEN "undo" ELSE "undo_empty"
        /\ seq' = SeqUndo(res.ok)
        /\ rt' = RtUndo(res.ok)

Redo ==
    LET res == redo(St)
    IN  /\ Becomes(res.st)
        /\ UNCHANGED canvas
        /\ stroke' = StrokeNone
        /\ doc' = DocNone
        /\ ret' = None
        /\ last' = IF res.ok THEN "redo" ELSE "redo_empty"
        /\ seq' = SeqRedo(res.ok)
        /\ rt' = RtNone

StartCrop ==
    /\ Becomes(start_crop(St))
    /\ UNCHANGED canvas
    /\ stroke' = StrokeNone
    /\ doc' = DocNone
    /\ ret' = None
    /\ last' = "start_crop"
    /\ seq' = SeqEnd
    /\ rt' = RtStart("crop", _selection_box, <<>>)

CancelCrop ==
    /\ Becomes(cancel_crop(St))
    /\ UNCHANGED canvas
    /\ stroke' = StrokeNone
    /\ doc' = DocNone
    /\ ret' = None
    /\ last' = "cancel_crop"
    /\ seq' = SeqEnd
    /\ rt' = RtNone

ApplyCrop ==
    LET applied == _current_surface # None /\ _selection_box # <<>> /\ _is_cropping
    IN  /\ Becomes(apply_crop(St))
        /\ UNCHANGED canvas
        /\ stroke' = StrokeNone
        /\ doc' = DocNone
        /\ ret' = None
        /\ last' = IF ~applied THEN "apply_crop_noop"
                   ELSE IF _crop_pan_offset = <<0, 0>> THEN "apply_crop"
                   ELSE "apply_crop_panned"
        /\ seq' = SeqAfter(applied)
        /\ rt' = RtNone

CutSelection(selection_box) ==
    /\ Becomes(cut_selection(St, selection_box))
    /\ UNCHANGED canvas
    /\ stroke' = StrokeNone
    /\ doc' = DocNone
    /\ ret' = None
    /\ last' = "cut_selection"
    /\ seq' = SeqAfter(_current_surface # None /\ selection_box # <<>>)
    /\ rt' = RtStart("cut", selection_box, <<>>)

CopySelection(selection_box) ==
    /\ Becomes(copy_selection(St, selection_box).st)
    /\ UNCHANGED canvas
    /\ stroke' = StrokeNone
    /\ doc' = DocNone
    /\ ret' = copy_selection(St, selection_box).ret
    /\ last' = "copy_selection"
    /\ seq' = SeqEnd
    /\ rt' = RtNone

SetFloatingSelection(surface, x, y) ==
    /\ Becomes(set_floating_selection(St, surface, x, y))
    /\ UNCHANGED canvas
    /\ stroke' = StrokeNone
    /\ doc' = DocNone
    /\ ret' = None
    /\ last' = "set_floating_selection"
    /\ seq' = SeqAfter(_current_surface # None)
    /\ rt' = RtStart("set", <<>>, <<surface, x, y>>)

PasteSelection ==
    /\ Becomes(paste_selection(St))
    /\ UNCHANGED canvas
    /\ stroke' = StrokeNone
    /\ doc' = DocNone
    /\ ret' = None
    /\ last' = "paste_selection"
    /\ seq' = SeqEnd
    /\ rt' = IF rt.phase = "cut" THEN [rt EXCEPT !.phase = "pasted"] ELSE RtNone

ClearFloatingSelection ==
    /\ Becomes(clear_floating_selection(St))
    /\ UNCHANGED canvas
    /\ stroke' = StrokeNone
    /\ doc' = DocNone
    /\ ret' = None
    /\ last' = "clear_floating_selection"
    /\ seq' = SeqEnd
    /\ rt' = RtNone

MoveFloatingSelection(x, y) ==
    /\ Becomes(move_floating_selection(St, x, y))
    /\ UNCHANGED canvas
    /\ stroke' = StrokeNone
    /\ doc' = DocNone
    /\ ret' = None
    /\ last' = "move_floating_selection"
    /\ seq' = SeqEnd
    /\ rt' = RtNone

SetBrushSize(size) ==
    /\ Becomes(set_brush_size(St, size))
    /\ UNCHANGED canvas
    /\ stroke' = StrokeNone
    /\ doc' = DocNone
    /\ ret' = None
    /\ last' = "set_brush_size"
    /\ seq' = SeqEnd
    /\ rt' = RtNone

SetBrushColor(color) ==
    /\ Becomes(set_brush_color(St, color))
    /\ UNCHANGED canvas
    /\ stroke' = StrokeNone
    /\ doc' = DocNone
    /\ ret' = None
    /\ last' = "set_brush_color"
    /\ seq' = SeqEnd
    /\ rt' = RtNone

SetTextSize(size) ==
    /\ Becomes(set_text_size(St, size))
    /\ UNCHANGED canvas
    /\ stroke' = StrokeNone
    /\ doc' = DocNone
    /\ ret' = None
    /\ last' = "set_text_size"
    /\ seq' = SeqEnd
    /\ rt' = RtNone

SetFontPath(font_path) ==
    /\ Becomes(set_font_path(St, font_path))
    /\ UNCHANGED canvas
    /\ stroke' = StrokeNone
    /\ doc' = DocNone
    /\ ret' = None
    /\ last' = "set_font_path"
    /\ seq' = SeqEnd
    /\ rt' = RtNone

StartDrawing ==
    /\ Becomes(start_drawing(St))
    /\ UNCHANGED canvas
    /\ stroke' = StrokeNone
    /\ doc' = DocNone
    /\ ret' = None
    /\ last' = "start_drawing"
    /\ seq' = SeqAfter(_current_surface # None)
    /\ rt' = RtNone

\* The segments of a stroke follow its start_drawing and belong to it.
DrawBrushStroke(points) ==
    /\ Becomes(draw_brush_stroke(St, points))
    /\ UNCHANGED canvas
    /\ stroke' = StrokeNone
    /\ doc' = DocNone
    /\ ret' = None
    /\ last' = IF last \in {"start_drawing", "stroke_segment"}
               THEN "stroke_segment" ELSE "draw_brush_stroke"
    /\ seq' = IF last \in {"start_drawing", "stroke_segment"} THEN seq ELSE SeqEnd
    /\ rt' = RtNone

DrawBrushDab(point) ==
    /\ Becomes(draw_brush_dab(St, point))
    /\ UNCHANGED canvas
    /\ stroke' = StrokeNone
    /\ doc' = DocNone
    /\ ret' = None
    /\ last' = "draw_brush_dab"
    /\ seq' = SeqAfter(_current_surface # None)
    /\ rt' = RtNone

AddText(text, x, y) ==
    /\ Becomes(add_text(St, text, x, y))
    /\ UNCHANGED canvas
    /\ stroke' = StrokeNone
    /\ doc' = DocNone
    /\ ret' = None
    /\ last' = IF Len(text) = 0 THEN "add_text_empty" ELSE "add_text"
    /\ seq' = SeqAfter(_current_surface # None)
    /\ rt' = RtNone

ResizeCanvas(new_width, new_height, anchor, fill_color) ==
    /\ Becomes(resize_canvas(St, new_width, new_height, anchor, fill_color))
    /\ UNCHANGED canvas
    /\ stroke' = StrokeNone
    /\ doc' = DocNone
    /\ ret' = None
    /\ last' = "resize_canvas"
    /\ seq' = SeqAfter(_current_surface # None)
    /\ rt' = RtStart("resize", <<>>, <<new_width, new_height, anchor, fill_color>>)

\* CanvasWidget.on_drag_end, a select drag that framed scaled_selection.
OnDragEndSelect(scaled_selection) ==
    /\ scaled_selection[3] > 0 /\ scaled_selection[4] > 0
    /\ Becomes([paste_selection(IF _is_cropping THEN cancel_crop(St) ELSE St)
                   EXCEPT !.selection_box = scaled_selection])
    /\ UNCHANGED canvas
    /\ stroke' = StrokeNone
    /\ doc' = DocNone
    /\ ret' = None
    /\ last' = "on_drag_end_select"
    /\ seq' = SeqEnd
    /\ rt' = RtNone

\* CanvasWidget.on_drag_begin and on_drag_update in drag mode
\* move_crop_image: the drag moves the image under the crop frame by
\* <<img_dx, img_dy>> from where the pan offset was.
OnDragUpdateMoveCrop(img_dx, img_dy) ==
    /\ _is_cropping /\ _selection_box # <<>>
    /\ Becomes([St EXCEPT !.crop_pan_offset = <<@[1] + img_dx, @[2] + img_dy>>])
    /\ UNCHANGED canvas
    /\ stroke' = StrokeNone
    /\ doc' = DocNone
    /\ ret' = None
    /\ last' = "on_drag_update_move_crop"
    /\ seq' = SeqEnd
    /\ rt' = RtNone

\* CanvasWidget.on_canvas_pressed with the brush tool, the pointer on the
\* image at image_point.  It is the GestureClick half of a button press; the
\* GestureDrag half is OnDragBeginBrush, and GTK runs the two in an order
\* the program does not choose.
OnCanvasPressedBrush(image_point) ==
    LET fresh == stroke.phase # "down"
        outside == \/ image_point[1] < _selection_box[1]
                   \/ image_point[1] >= _selection_box[1] + _selection_box[3]
                   \/ image_point[2] < _selection_box[2]
                   \/ image_point[2] >= _selection_box[2] + _selection_box[4]
        cleared == IF /\ _selection_box # <<>>
                      /\ _floating_selection_data = None
                      /\ ~_is_cropping
                      /\ outside
                   THEN [St EXCEPT !.selection_box = <<>>]
                   ELSE St
    IN  /\ current_image # None
        /\ \/ fresh /\ _drag_mode = "none"
           \/ ~fresh /\ ~stroke.pressed /\ image_point = stroke.at
        /\ Becomes(draw_brush_dab(cleared, image_point))
        /\ UNCHANGED canvas
        /\ stroke' = IF fresh
                     THEN [StrokeNone EXCEPT !.phase = "down", !.kind = "brush",
                                             !.pressed = TRUE, !.at = image_point,
                                             !.pre = _current_surface, !.pushes = 1]
                     ELSE [stroke EXCEPT !.pressed = TRUE, !.pushes = @ + 1]
        /\ doc' = DocNone
        /\ ret' = None
        /\ last' = "on_canvas_pressed_brush"
        /\ seq' = SeqAfter(TRUE)
        /\ rt' = RtNone

\* CanvasWidget.on_drag_begin with the brush tool, crop mode off, the pointer
\* on the image at scaled_point and on no resize handle.
OnDragBeginBrush(scaled_point) ==
    LET fresh == stroke.phase # "down"
    IN  /\ current_image # None
        /\ ~_is_cropping
        /\ \/ fresh /\ _drag_mode = "none"
           \/ ~fresh /\ ~stroke.begun /\ scaled_point = stroke.at
        /\ Becomes(start_drawing(St))
        /\ _drag_mode' = "brush"
        /\ _stroke_points' = <<scaled_point>>
        /\ UNCHANGED <<resizing, clipboard_reads, _current_tool>>
        /\ stroke' = IF fresh
                     THEN [StrokeNone EXCEPT !.phase = "down", !.kind = "brush",
                                             !.begun = TRUE, !.at = scaled_point,
                                             !.pre = _current_surface, !.pushes = 1]
                     ELSE [stroke EXCEPT !.begun = TRUE, !.pushes = @ + 1]
        /\ doc' = DocNone
        /\ ret' = None
        /\ last' = "on_drag_begin_brush"
        /\ seq' = SeqAfter(TRUE)
        /\ rt' = RtNone

\* CanvasWidget.on_drag_update in drag mode brush, the pointer on the image
\* at scaled_point.
OnDragUpdateBrush(scaled_point) ==
    LET points == Append(_stroke_points, scaled_point)
    IN  /\ _drag_mode = "brush"
        /\ stroke.phase = "down" /\ stroke.pressed /\ stroke.begun
        /\ current_image # None
        /\ _stroke_points' = points
        /\ UNCHANGED <<_drag_mode, resizing, clipboard_reads, _current_tool>>
        /\ Becomes(IF Len(points) > 1
                   THEN draw_brush_stroke(St, SubSeq(points, Len(points) - 1, Len(points)))
                   ELSE St)
        /\ stroke' = [stroke EXCEPT !.segments = @ + 1]
        /\ doc' = DocNone
        /\ ret' = None
        /\ last' = "on_drag_update_brush"
        /\ seq' = seq
        /\ rt' = RtNone

\* CanvasWidget.on_drag_end in drag mode brush.
OnDragEndBrush ==
    /\ _drag_mode = "brush"
    /\ stroke.phase = "down" /\ stroke.pressed /\ stroke.begun
    /\ Becomes(St)
    /\ _drag_mode' = "none"
    /\ _stroke_points' = <<>>
    /\ UNCHANGED <<resizing, clipboard_reads, _current_tool>>
    /\ stroke' = [stroke EXCEPT !.phase = "released"]
    /\ doc' = DocNone
    /\ ret' = None
    /\ last' = "on_drag_end_brush"
    /\ seq' = seq
    /\ rt' = RtNone

_anchor_for_handle(handle) ==
    CASE handle = "top-left" -> <<"right", "bottom">>
      [] handle = "top" -> <<"left", "bottom">>
      [] handle = "top-right" -> <<"left", "bottom">>
      [] handle = "right" -> <<"left", "top">>
      [] handle = "bottom-right" -> <<"left", "top">>
      [] handle = "bottom" -> <<"left", "top">>
      [] handle = "bottom-left" -> <<"right", "top">>
      [] handle = "left" -> <<"right", "top">>
      [] OTHER -> <<"left", "top">>

\* CanvasWidget.on_drag_begin with the pointer on the resize handle named
\* handle.
OnDragBeginResize(handle) ==
    /\ current_image # None
    /\ stroke.phase # "down"
    /\ Becomes(St)
    /\ _active_resize_handle' = handle
    /\ _resize_start_size' = <<current_image.w, current_image.h>>
    /\ _resize_anchor' = _anchor_for_handle(handle)
    /\ _canvas_resize_in_progress' = TRUE
    /\ UNCHANGED <<brushing, clipboard_reads, _current_tool>>
    /\ stroke' = [StrokeNone EXCEPT !.phase = "down", !.kind = "resize", !.begun = TRUE,
                                    !.pre = _current_surface]
    /\ doc' = DocNone
    /\ ret' = None
    /\ last' = "on_drag_begin_resize"
    /\ seq' = SeqEnd
    /\ rt' = RtNone

\* CanvasWidget._apply_canvas_resize, at display scale 1: the size the
\* handle gives when the pointer is <<offset_x, offset_y>> from where the
\* drag began.
_apply_canvas_resize(s, offset_x, offset_y) ==
    LET handle == _active_resize_handle
        width == _resize_start_size[1]
        height == _resize_start_size[2]
        new_width == IF handle \in {"left", "top-left", "bottom-left"} THEN width - offset_x
                     ELSE IF handle \in {"right", "top-right", "bottom-right"}
                     THEN width + offset_x
                     ELSE width
        new_height == IF handle \in {"top", "top-left", "top-right"} THEN height - offset_y
                      ELSE IF handle \in {"bottom", "bottom-left", "bottom-right"}
                      THEN height + offset_y
                      ELSE height
    IN  IF _resize_start_size = <<>> THEN s
        ELSE resize_canvas(s, Max(1, new_width), Max(1, new_height), _resize_anchor, "clear")

\* CanvasWidget.on_drag_update while a resize handle is dragged.
OnDragUpdateResize(offset_x, offset_y) ==
    LET resized == _apply_canvas_resize(St, offset_x, offset_y)
    IN  /\ _canvas_resize_in_progress
        /\ stroke.phase = "down"
        /\ Becomes(resized)
        /\ UNCHANGED canvas
        /\ stroke' = [stroke EXCEPT !.segments = @ + 1,
                                    !.pushes = @ + Len(resized.undo_stack) - Len(_undo_stack)]
        /\ doc' = DocNone
        /\ ret' = None
        /\ last' = "on_drag_update_resize"
        /\ seq' = SeqEnd
        /\ rt' = RtNone

\* CanvasWidget.on_drag_end while a resize handle is dragged.
OnDragEndResize ==
    /\ _canvas_resize_in_progress
    /\ stroke.phase = "down"
    /\ Becomes(St)
    /\ _canvas_resize_in_progress' = FALSE
    /\ _active_resize_handle' = "None"
    /\ _resize_start_size' = <<>>
    /\ UNCHANGED <<_resize_anchor, brushing, clipboard_reads, _current_tool>>
    /\ stroke' = [stroke EXCEPT !.phase = "released"]
    /\ doc' = DocNone
    /\ ret' = None
    /\ last' = "on_drag_end_resize"
    /\ seq' = SeqEnd
    /\ rt' = RtNone

\* ToolManager.VALID_TOOLS
VALID_TOOLS == {"select", "crop", "text", "brush", "move"}

\* A setter that takes any name.
current_tool_setter_unvalidated(current, tool_name) == tool_name

\* The setter of the property ToolManager.current_tool: the active tool
\* after the assignment of tool_name while current is active.
current_tool_setter(current, tool_name) ==
    IF tool_name \in VALID_TOOLS THEN tool_name ELSE current

\* An assignment manager.current_tool = tool_name.
SetCurrentTool(tool_name) ==
    /\ Becomes(St)
    /\ _current_tool' = current_tool_setter(_current_tool, tool_name)
    /\ UNCHANGED <<brushing, resizing, clipboard_reads>>
    /\ stroke' = StrokeNone
    /\ doc' = DocNone
    /\ ret' = None
    /\ last' = IF tool_name \in VALID_TOOLS THEN "set_current_tool"
               ELSE "set_current_tool_unknown"
    /\ seq' = SeqEnd
    /\ rt' = RtNone

\* MainWindow.on_crop_clicked: the crop button applies the crop in crop
\* mode, and enters crop mode when a rect is marked.
OnCropClicked ==
    /\ Becomes(IF _is_cropping THEN apply_crop(St)
               ELSE IF _selection_box # <<>> THEN start_crop(St)
               ELSE St)
    /\ _current_tool' = IF ~_is_cropping /\ _selection_box # <<>>
                        THEN current_tool_setter(_current_tool, "select")
                        ELSE _current_tool
    /\ UNCHANGED <<brushing, resizing, clipboard_reads>>
    /\ stroke' = StrokeNone
    /\ doc' = DocNone
    /\ ret' = None
    /\ last' = "on_crop_clicked"
    /\ seq' = SeqEnd
    /\ rt' = RtNone

\* MainWindow.on_tool_toggled, the button of the tool tool_name becoming
\* active.
OnToolToggled(tool_name) ==
    /\ Becomes(IF _is_cropping THEN cancel_crop(St) ELSE St)
    /\ _current_tool' = current_tool_setter(_current_tool, tool_name)
    /\ UNCHANGED <<brushing, resizing, clipboard_reads>>
    /\ stroke' = StrokeNone
    /\ doc' = DocNone
    /\ ret' = None
    /\ last' = "on_tool_toggled"
    /\ seq' = SeqEnd
    /\ rt' = RtNone

\* MainWindow.on_key_pressed, the Delete key.
OnKeyDelete ==
    /\ Becomes(IF _selection_box = <<>> THEN St
               ELSE IF _floating_selection_data # None THEN clear_floating_selection(St)
               ELSE clear_floating_selection(cut_selection(St, _selection_box)))
    /\ UNCHANGED canvas
    /\ stroke' = StrokeNone
    /\ doc' = DocNone
    /\ ret' = None
    /\ last' = "on_key_delete"
    /\ seq' = SeqEnd
    /\ rt' = RtNone

\* MainWindow.paste_from_clipboard (Ctrl+V): the read of the clipboard is
\* started, and completes later.
PasteFromClipboard ==
    /\ Becomes(St)
    /\ clipboard_reads' = clipboard_reads + 1
    /\ UNCHANGED <<brushing, resizing, _current_tool>>
    /\ stroke' = StrokeNone
    /\ doc' = DocNone
    /\ ret' = None
    /\ last' = "paste_from_clipboard"
    /\ seq' = SeqEnd
    /\ rt' = RtNone

\* MainWindow._on_paste_texture_ready: a read of the clipboard completes.
\* texture is None when the clipboard holds no image, else the surface
\* decoded from it.
OnPasteTextureReady(texture) ==
    /\ clipboard_reads > 0
    /\ Becomes(IF texture # None THEN set_floating_selection(St, texture, 0, 0) ELSE St)
    /\ clipboard_reads' = clipboard_reads - 1
    /\ _current_tool' = IF texture # None THEN current_tool_setter(_current_tool, "select")
                        ELSE _current_tool
    /\ UNCHANGED <<brushing, resizing>>
    /\ stroke' = StrokeNone
    /\ doc' = DocNone
    /\ ret' = None
    /\ last' = IF texture # None THEN "on_paste_texture_ready" ELSE "on_paste_no_texture"
    /\ seq' = SeqEnd
    /\ rt' = RtNone

\* A read of processor.current_image, as on_draw and the gesture handlers
\* make it, on an engine that holds an image (MainWindow.__init__ creates
\* a blank one before any handler runs).
ReadCurrentImage ==
    LET res == get_current_image(St)
    IN  /\ _current_surface # None
        /\ Becomes(res.st)
        /\ UNCHANGED canvas
        /\ stroke' = StrokeNone
        /\ doc' = DocNone
        /\ ret' = res.ret
        /\ last' = "current_image"
        /\ seq' = SeqEnd
        /\ rt' = RtNone

-----------------------------------------------------------------------------
(* The inputs the operations are tried with.                               *)

Sizes == 1 .. MaxDim

\* Rectangles inside a 2 x 2 surface, one reaching over its edge, one empty.
Rects == {<<0, 0, 1, 1>>, <<1, 0, 1, 2>>, <<1, 1, 2, 2>>, <<0, 0, 0, 1>>}

\* What the clipboard may hold.
ClipboardSurfaces == {PaintColor(ImageSurface(1, 1), "red")}

FloatPlaces == {<<1, 0>>, <<0, 1>>}

Paths == {"a.png"}

\* What decoding a file may give.
Decoded ==
    {[ok |-> FALSE, surface |-> None],
     [ok |-> TRUE, surface |-> FillPixels(PaintColor(ImageSurface(MaxDim, 1), "white"),
                                          {<<0, 0>>}, "red")]}

PanSteps == {0, 1}

\* An operation that pushes a snapshot is tried while the undo stack is short.
MayPush == Len(_undo_stack) < MaxHist

(* Spec: documents, selections, crop and history. *)
Next ==
    \/ \E w \in Sizes : CreateBlankImage(w, MaxDim, "white")
    \/ \E f \in Paths, d \in Decoded : LoadImage(f, d)
    \/ Undo
    \/ Redo
    \/ StartCrop
    \/ CancelCrop
    \/ MayPush /\ ApplyCrop
    \/ \E b \in Rects : MayPush /\ CutSelection(b)
    \/ \E b \in Rects : CopySelection(b)
    \/ \E d \in ClipboardSurfaces : MayPush /\ SetFloatingSelection(d, 0, 0)
    \/ PasteSelection
    \/ ClearFloatingSelection
    \/ \E p \in FloatPlaces : MoveFloatingSelection(p[1], p[2])
    \/ \E b \in Rects : OnDragEndSelect(b)
    \/ \E dx \in PanSteps :
          /\ _crop_pan_offset[1] + dx \in PanSteps
          /\ OnDragUpdateMoveCrop(dx, 0)

Spec == Init /\ [][Next]_vars

-----------------------------------------------------------------------------
(* SpecSeq: runs of operations that push a snapshot, and the undo and redo *)
(* calls after them.  seq follows the runs.                                *)

\* In SpecSeq, an operation that pushes a snapshot runs only while the undo
\* stack holds fewer than MaxRun entries.
MaxRun == 2

MayRun == Len(_undo_stack) < MaxRun

InitSeq ==
    /\ _original_surface = None
    /\ _current_surface = None
    /\ _floating_selection_data = None
    /\ _selection_box = <<>>
    /\ _floating_selection_position = <<>>
    /\ _brush_size = 10
    /\ _text_size = 20
    /\ _brush_color = "red"
    /\ _font_path = "None"
    /\ image_path = "None"
    /\ _undo_stack = <<>>
    /\ _redo_stack = <<>>
    /\ _is_cropping = FALSE
    /\ _crop_pan_offset = <<0, 0>>
    /\ _drag_mode = "none"
    /\ _stroke_points = <<>>
    /\ _active_resize_handle = "None"
    /\ _resize_start_size = <<>>
    /\ _resize_anchor = <<"left", "top">>
    /\ _canvas_resize_in_progress = FALSE
    /\ clipboard_reads = 0
    /\ _current_tool = "select"
    /\ buffers = NoBuffers
    /\ stroke = StrokeNone
    /\ doc = DocNone
    /\ ret = None
    /\ last = "init"
    /\ seq = SeqIdle
    /\ rt = RtNone

NextSeq ==
    \/ CreateBlankImage(MaxDim, MaxDim, "white")
    \/ MayRun /\ StartDrawing
    \/ DrawBrushStroke(<< <<0, 0>>, <<MaxDim, 0>> >>)
    \/ MayRun /\ DrawBrushDab(<<0, 0>>)
    \/ MayRun /\ AddText("a", 0, 1)
    \/ MayRun /\ ResizeCanvas(1, MaxDim, <<"center", "center">>, "clear")
    \/ MayRun /\ CutSelection(<<1, 0, 1, 2>>)
    \/ MayRun /\ SetFloatingSelection(PaintColor(ImageSurface(1, 1), "red"), 0, 0)
    \/ OnDragEndSelect(<<1, 0, 1, 2>>)
    \/ StartCrop
    \/ MayRun /\ ApplyCrop
    \/ PasteSelection
    \/ MoveFloatingSelection(0, 1)
    \/ Undo
    \/ Redo

SpecSeq == InitSeq /\ [][NextSeq]_vars

-----------------------------------------------------------------------------
(* SpecCap: long runs, past the history cap.  Each operation widens a one  *)
(* pixel high canvas by one pixel, so that every snapshot of a run differs *)
(* from the others.                                                        *)

\* The longest run SpecCap tries, and the widest canvas.
MaxCapOps == 22

NextCap ==
    \/ CreateBlankImage(1, 1, "white")
    \/ /\ _current_surface # None
       /\ seq.n < MaxCapOps
       /\ _current_surface.w <= MaxCapOps
       /\ ResizeCanvas(_current_surface.w + 1, 1, <<"left", "top">>, "clear")
    \/ Undo
    \/ Redo

SpecCap == InitSeq /\ [][NextCap]_vars

-----------------------------------------------------------------------------
(* SpecBrush: brush gestures on the canvas, and undo and redo between them. *)

\* The most drag-update events of one brush gesture.
MaxSegments == 2

BrushPoints == {<<0, 0>>, <<1, 1>>}

BrushSizes == {2}

\* Between gestures: no button is held.
PointerUp == stroke.phase # "down"

NextBrush ==
    \/ PointerUp /\ CreateBlankImage(MaxDim, MaxDim, "white")
    \/ \E size \in BrushSizes : PointerUp /\ SetBrushSize(size)
    \/ \E p \in BrushPoints :
          /\ PointerUp => Len(_undo_stack) <= MaxHist
          /\ OnCanvasPressedBrush(p)
    \/ \E p \in BrushPoints :
          /\ PointerUp => Len(_undo_stack) <= MaxHist
          /\ OnDragBeginBrush(p)
    \/ \E p \in BrushPoints : stroke.segments < MaxSegments /\ OnDragUpdateBrush(p)
    \/ OnDragEndBrush
    \/ PointerUp /\ Undo
    \/ PointerUp /\ Redo

SpecBrush == Init /\ [][NextBrush]_vars

-----------------------------------------------------------------------------
(* SpecStamp: text stamps, canvas growth from the top left corner, pasted-in *)
(* floating selections, and reads of current_image.                          *)

FillColors == {"clear", "red"}

NextStamp ==
    \/ \E color \in {"white", "clear"} : CreateBlankImage(1, 1, color)
    \/ MayRun /\ SetFloatingSelection(PaintColor(ImageSurface(1, 1), "red"), 0, 0)
    \/ MayRun /\ CutSelection(<<0, 0, 1, 1>>)
    \/ \E p \in FloatPlaces : MoveFloatingSelection(p[1], p[2])
    \/ \E text \in {"", "a"} : MayRun /\ AddText(text, 0, 1)
    \/ \E fill_color \in FillColors :
          /\ MayRun
          /\ _current_surface # None
          /\ _current_surface.w < MaxDim /\ _current_surface.h < MaxDim
          /\ ResizeCanvas(_current_surface.w + 1, _current_surface.h + 1,
                          <<"left", "top">>, fill_color)
    \/ ReadCurrentImage
    \/ Undo
    \/ Redo

SpecStamp == Init /\ [][NextStamp]_vars

-----------------------------------------------------------------------------
(* SpecSize: the sizes a document takes.  Blank images of any requested    *)
(* width, crops, and canvas resizes to any requested size about any anchor, *)
(* each resize the first change to its document.                            *)

\* The widths and heights requested: 0 is a degenerate request.
SizeRequests == 0 .. MaxDim

\* Anchors, per axis: a side, the centre, and a word the code does not name.
Anchors == {<<"left", "top">>, <<"right", "bottom">>, <<"center", "center">>,
            <<"left", "bottom">>, <<"middle", "top">>}

\* A decoded file with one red pixel in its top left corner.
DecodedSquare ==
    [ok |-> TRUE, surface |-> FillPixels(PaintColor(ImageSurface(MaxDim, MaxDim), "white"),
                                         {<<0, 0>>}, "red")]

NextSize ==
    \/ \E w \in SizeRequests : CreateBlankImage(w, 1, "white")
    \/ LoadImage("a.png", DecodedSquare)
    \/ \E w \in SizeRequests, h \in SizeRequests, anchor \in Anchors :
          _undo_stack = <<>> /\ ResizeCanvas(w, h, anchor, "clear")
    \/ \E b \in Rects : OnDragEndSelect(b)
    \/ StartCrop
    \/ MayPush /\ ApplyCrop
    \/ Undo

SpecSize == Init /\ [][NextSize]_vars

-----------------------------------------------------------------------------
(* SpecTools: the tool settings, set while a floating selection or a       *)
(* marked rect may be pending.                                             *)

TextSizes == {12}

BrushColors == {"white"}

FontPaths == {"a.ttf"}

NextTools ==
    \/ CreateBlankImage(MaxDim, MaxDim, "white")
    \/ \E d \in ClipboardSurfaces : MayPush /\ SetFloatingSelection(d, 0, 0)
    \/ \E b \in Rects : MayPush /\ CutSelection(b)
    \/ \E b \in Rects : OnDragEndSelect(b)
    \/ \E size \in BrushSizes : SetBrushSize(size)
    \/ \E color \in BrushColors : SetBrushColor(color)
    \/ \E size \in TextSizes : SetTextSize(size)
    \/ \E font_path \in FontPaths : SetFontPath(font_path)
    \/ Undo
    \/ Redo

SpecTools == Init /\ [][NextTools]_vars

-----------------------------------------------------------------------------
(* SpecHandle: drags of the canvas resize handles, and undo and redo       *)
(* between them.                                                           *)

Handles == {"top-left", "top", "top-right", "right", "bottom-right", "bottom",
            "bottom-left", "left"}

\* Where the pointer is, from where the drag began, in image pixels: it
\* moves along the diagonal.
DragOffsets == {<<-1, -1>>, <<0, 0>>, <<1, 1>>}

NextHandle ==
    \/ PointerUp /\ CreateBlankImage(1, 1, "white")
    \/ PointerUp /\ LoadImage("a.png", DecodedSquare)
    \/ \E handle \in Handles :
          /\ Len(_undo_stack) < MaxHist
          /\ OnDragBeginResize(handle)
    \/ \E offset \in DragOffsets :
          /\ stroke.segments < MaxSegments
          /\ _canvas_resize_in_progress
          /\ _resize_start_size[1] < MaxDim \/ offset[1] <= 0
          /\ _resize_start_size[2] < MaxDim \/ offset[2] <= 0
          /\ OnDragUpdateResize(offset[1], offset[2])
    \/ OnDragEndResize
    \/ PointerUp /\ Undo
    \/ PointerUp /\ Redo

SpecHandle == Init /\ [][NextHandle]_vars

-----------------------------------------------------------------------------
(* SpecUi: the window's handlers with the select tool.  The engine starts  *)
(* as MainWindow.__init__ leaves it, holding a blank white image.          *)

\* The most clipboard reads in flight at once.
MaxReads == 1

InitUi ==
    /\ _original_surface = PaintColor(ImageSurface(MaxDim, MaxDim), "white")
    /\ _current_surface = PaintColor(ImageSurface(MaxDim, MaxDim), "white")
    /\ _floating_selection_data = None
    /\ _selection_box = <<>>
    /\ _floating_selection_position = <<>>
    /\ _brush_size = 10
    /\ _text_size = 20
    /\ _brush_color = "red"
    /\ _font_path = "None"
    /\ image_path = "None"
    /\ _undo_stack = <<>>
    /\ _redo_stack = <<>>
    /\ _is_cropping = FALSE
    /\ _crop_pan_offset = <<0, 0>>
    /\ _drag_mode = "none"
    /\ _stroke_points = <<>>
    /\ _active_resize_handle = "None"
    /\ _resize_start_size = <<>>
    /\ _resize_anchor = <<"left", "top">>
    /\ _canvas_resize_in_progress = FALSE
    /\ clipboard_reads = 0
    /\ _current_tool = "select"
    /\ buffers = [NoBuffers EXCEPT !.orig = 0, !.cur = 1]
    /\ stroke = StrokeNone
    /\ doc = DocNone
    /\ ret = None
    /\ last = "create_blank_image"
    /\ seq = SeqOff
    /\ rt = RtNone

NextUi ==
    \/ \E b \in Rects : OnDragEndSelect(b)
    \/ /\ ~_is_cropping /\ _floating_selection_data = None /\ _selection_box # <<>>
       /\ MayPush
       /\ CutSelection(_selection_box)
    \/ \E p \in FloatPlaces :
          /\ ~_is_cropping /\ _floating_selection_data # None
          /\ MoveFloatingSelection(p[1], p[2])
    \/ \E dx \in PanSteps :
          /\ _crop_pan_offset[1] + dx \in PanSteps
          /\ OnDragUpdateMoveCrop(dx, 0)
    \/ MayPush /\ OnCropClicked
    \/ OnToolToggled("select")
    \/ (_floating_selection_data = None => MayPush) /\ OnKeyDelete
    \/ clipboard_reads < MaxReads /\ PasteFromClipboard
    \/ \E texture \in ClipboardSurfaces \cup {None} :
          MayPush /\ OnPasteTextureReady(texture)
    \/ Undo
    \/ Redo

SpecUi == InitUi /\ [][NextUi]_vars

-----------------------------------------------------------------------------
(* SpecManager: the active tool, assigned directly and by the window's     *)
(* handlers.                                                               *)

\* The names assigned: the valid ones, and two that are not tools.
ToolNames == VALID_TOOLS \cup {"eraser", ""}

\* The tools that have a toggle button.
ToolButtons == {"select", "brush", "text"}

NextManager ==
    \/ \E tool_name \in ToolNames : SetCurrentTool(tool_name)
    \/ \E tool_name \in ToolButtons : OnToolToggled(tool_name)
    \/ \E b \in Rects : _current_tool = "select" /\ OnDragEndSelect(b)
    \/ MayPush /\ OnCropClicked
    \/ clipboard_reads < MaxReads /\ PasteFromClipboard
    \/ \E texture \in ClipboardSurfaces \cup {None} :
          MayPush /\ OnPasteTextureReady(texture)
    \/ Undo

SpecManager == InitUi /\ [][NextManager]_vars

-----------------------------------------------------------------------------
(* Claims checked under Spec.                                              *)

InRect(p, b) ==
    p[1] >= b[1] /\ p[1] < b[1] + b[3] /\ p[2] >= b[2] /\ p[2] < b[2] + b[4]

\* C4: the selection is never at the same time Marked (a non-null
\* _selection_box) and Floating (a non-null _floating_selection_data).
C4_MarkedFloatingExclusive ==
    ~(_selection_box # <<>> /\ _floating_selection_data # None)

\* C5, as stated: cut_selection(rect) followed immediately by
\* paste_selection() leaves the authoritative surface pixel-identical to
\* what it was before the cut, and leaves no floating selection.
C5_CutPasteRestoresSurface ==
    (rt.phase = "pasted" /\ rt.pre # None)
        => /\ _current_surface = rt.pre
           /\ _floating_selection_data = None

\* C5, amended: cut_selection(rect) followed immediately by
\* paste_selection() leaves the authoritative surface pixel-identical to
\* the surface before the cut with the floating selection that was pending
\* before the cut, if any, composited onto it, and leaves no floating
\* selection.
C5_CutPasteRestoresMerged ==
    (rt.phase = "pasted" /\ rt.pre # None)
        => /\ _current_surface =
                  (IF rt.data = None THEN rt.pre
                   ELSE [rt.pre EXCEPT !.px = [p \in DOMAIN rt.pre.px |->
                            LET f == PixelAt(rt.data, p[1] - rt.pos[1], p[2] - rt.pos[2])
                            IN  IF f = "clear" THEN rt.pre.px[p] ELSE f]])
           /\ _floating_selection_data = None
           /\ _floating_selection_position = <<>>

\* A cut of a rect holding an opaque pixel, with no float pending, then the paste.
C5_Witness ==
    /\ rt.phase = "pasted" /\ last = "paste_selection"
    /\ rt.pre # None /\ rt.data = None
    /\ \E p \in DOMAIN rt.pre.px : InRect(p, rt.box) /\ rt.pre.px[p] # "clear"

\* C6: after cut_selection((x, y, w, h)) on a surface with no pending
\* float, every pixel of the authoritative surface inside the rect is
\* transparent, every pixel outside it is unchanged, and the floating
\* selection is a w x h buffer holding the rect's former pixels, at (x, y).
C6_CutEffect ==
    (rt.phase = "cut" /\ rt.pre # None /\ rt.data = None)
        => /\ _current_surface.w = rt.pre.w /\ _current_surface.h = rt.pre.h
           /\ \A p \in DOMAIN rt.pre.px :
                 _current_surface.px[p] = IF InRect(p, rt.box) THEN "clear" ELSE rt.pre.px[p]
           /\ _floating_selection_data # None
           /\ _floating_selection_data.w = rt.box[3]
           /\ _floating_selection_data.h = rt.box[4]
           /\ \A q \in (0 .. rt.box[3] - 1) \X (0 .. rt.box[4] - 1) :
                 _floating_selection_data.px[q] =
                     IF <<rt.box[1] + q[1], rt.box[2] + q[2]>> \in DOMAIN rt.pre.px
                     THEN rt.pre.px[<<rt.box[1] + q[1], rt.box[2] + q[2]>>]
                     ELSE "clear"
           /\ _floating_selection_position = <<rt.box[1], rt.box[2]>>

\* A cut, away from the origin, of opaque pixels that leaves opaque pixels behind.
C6_Witness ==
    /\ rt.phase = "cut" /\ last = "cut_selection"
    /\ rt.pre # None /\ rt.data = None /\ rt.box[1] > 0
    /\ \E p \in DOMAIN rt.pre.px : InRect(p, rt.box) /\ rt.pre.px[p] # "clear"
    /\ \E p \in DOMAIN rt.pre.px : ~InRect(p, rt.box) /\ rt.pre.px[p] # "clear"

\* C7: copy_selection(rect) changes the authoritative surface only by
\* merging a pending floating selection, pushes nothing onto the undo
\* stack and does not clear the redo stack; with no pending float it
\* leaves the whole engine state unchanged.
C7_CopyNonDestructive ==
    [][last' = "copy_selection"
         => /\ _undo_stack' = _undo_stack
            /\ _redo_stack' = _redo_stack
            /\ _current_surface' =
                   (IF _current_surface # None /\ _floating_selection_data # None
                    THEN [_current_surface EXCEPT !.px = [p \in DOMAIN _current_surface.px |->
                             LET f == PixelAt(_floating_selection_data,
                                              p[1] - _floating_selection_position[1],
                                              p[2] - _floating_selection_position[2])
                             IN  IF f = "clear" THEN _current_surface.px[p] ELSE f]]
                    ELSE _current_surface)
            /\ (_floating_selection_data = None => engine' = engine)]_vars

\* A copy from an image whose redo stack holds a snapshot.
C7_Witness ==
    /\ last = "copy_selection"
    /\ _current_surface # None
    /\ _redo_stack # <<>>

\* C8: with crop mode on, a marked rect (x, y, w, h) and pan offset (0, 0),
\* apply_crop yields a surface of size (w, h) whose pixel (i, j) is the
\* former pixel (x + i, y + j), and pushes the pre-crop surface as one undo
\* snapshot.
C8_CropCorrect ==
    [][last' = "apply_crop"
         => /\ _current_surface'.w = _selection_box[3]
            /\ _current_surface'.h = _selection_box[4]
            /\ \A q \in (0 .. _selection_box[3] - 1) \X (0 .. _selection_box[4] - 1) :
                  _current_surface'.px[q] =
                      IF <<_selection_box[1] + q[1], _selection_box[2] + q[2]>>
                             \in DOMAIN _current_surface.px
                      THEN _current_surface.px[<<_selection_box[1] + q[1],
                                                 _selection_box[2] + q[2]>>]
                      ELSE "clear"
            /\ _undo_stack' = IF Len(_undo_stack) < _max_undo_steps
                              THEN Append(_undo_stack, _current_surface)
                              ELSE Append(Tail(_undo_stack), _current_surface)]_vars

\* The crop (1, 0, 1, 2) of the loaded 2 x 1 image: red | white becomes white over clear.
C8_Witness ==
    /\ last = "apply_crop"
    /\ _current_surface.w = 1 /\ _current_surface.h = 2
    /\ _current_surface.px[<<0, 0>>] = "white"
    /\ _undo_stack # <<>>
    /\ _undo_stack[Len(_undo_stack)].w = 2
    /\ _undo_stack[Len(_undo_stack)].px[<<0, 0>>] = "red"

\* C9: a load_image that fails leaves the engine state unchanged: the
\* surfaces, the floating selection and its position, the marked rect, both
\* history stacks and image_path.
C9_FailedLoadKeepsState ==
    [][last' = "load_image_failed" => engine' = engine]_vars

\* C10: a successful undo() or redo() leaves no floating selection, no
\* marked rect and crop mode off, with the pan offset reset.
C10_UndoRedoResetSelectionAndCrop ==
    last \in {"undo", "redo"}
        => /\ _floating_selection_data = None
           /\ _floating_selection_position = <<>>
           /\ _selection_box = <<>>
           /\ ~_is_cropping
           /\ _crop_pan_offset = <<0, 0>>

\* C12: after create_blank_image or a successful load_image both history
\* stacks are empty, and undo() and redo() return False and restore nothing.
C12_FreshDocumentHasNoHistory ==
    last \in {"create_blank_image", "load_image"}
        => /\ _undo_stack = <<>> /\ _redo_stack = <<>>
           /\ ~undo(St).ok /\ undo(St).st = St
           /\ ~redo(St).ok /\ redo(St).st = St

\* A load that replaced a document that had an undo snapshot.
C12_Witness ==
    last = "load_image" /\ doc.hadUndo

\* C13: after create_blank_image or a successful load_image there is no
\* floating selection, no marked rect, crop mode is off and the pan offset
\* is (0, 0).
C13_FreshDocumentResetsSelectionAndCrop ==
    last \in {"create_blank_image", "load_image"}
        => /\ _floating_selection_data = None
           /\ _floating_selection_position = <<>>
           /\ _selection_box = <<>>
           /\ ~_is_cropping
           /\ _crop_pan_offset = <<0, 0>>

\* C15: apply_crop with crop mode off or no marked rect, paste_selection
\* and move_floating_selection with no floating selection, and undo() and
\* redo() on an empty stack change no field of the engine.
C15_NoOpsChangeNothing ==
    [][(\/ last' = "apply_crop_noop"
        \/ last' = "paste_selection" /\ _floating_selection_data = None
        \/ last' = "move_floating_selection" /\ _floating_selection_data = None
        \/ last' = "undo_empty"
        \/ last' = "redo_empty")
         => engine' = engine]_vars

\* An apply_crop in crop mode, on an image, with no marked rect.
C15_Witness ==
    /\ last = "apply_crop_noop"
    /\ _current_surface # None
    /\ _is_cropping /\ _selection_box = <<>>

-----------------------------------------------------------------------------
(* Claims checked under SpecSeq.                                           *)

C2_RedoInverse ==
    (seq.phase = "redo" /\ seq.r = seq.n) => current_image = seq.postImage

\* C14: after undo() followed by an operation that pushes an undo
\* snapshot, the redo stack is empty: redo() returns False and changes
\* nothing.
C14_NewOperationClearsRedo ==
    (seq.phase = "ops" /\ seq.afterUndo)
        => /\ _redo_stack = <<>>
           /\ ~redo(St).ok
           /\ redo(St).st = St

\* An operation that changed the surface right after a successful undo().
C14_Witness ==
    /\ seq.phase = "ops" /\ seq.afterUndo /\ seq.n = 1
    /\ last \in {"cut_selection", "add_text", "draw_brush_dab", "resize_canvas"}
    /\ _current_surface # seq.log[1]

\* C31: no entry of the undo stack or of the redo stack, and not the
\* original surface, is the same object as the authoritative surface; each
\* stack entry has its own reference.
C31_SnapshotsIndependent ==
    /\ Len(buffers.undo) = Len(_undo_stack)
    /\ Len(buffers.redo) = Len(_redo_stack)
    /\ buffers.cur # NoBuffer
          => /\ buffers.orig # buffers.cur
             /\ \A i \in DOMAIN buffers.undo : buffers.undo[i] # buffers.cur
             /\ \A i \in DOMAIN buffers.redo : buffers.redo[i] # buffers.cur

\* After a redo, with snapshots on both stacks and an original surface.
C31_Witness ==
    /\ last = "redo"
    /\ _undo_stack # <<>> /\ _redo_stack # <<>>
    /\ buffers.orig # NoBuffer /\ buffers.cur # NoBuffer

-----------------------------------------------------------------------------
(* Claims checked under SpecCap.                                           *)

Min(a, b) == IF a <= b THEN a ELSE b

\* C3: after a run of more than 20 operations that each pushed one undo
\* snapshot, the snapshots that remain are those of the 20 most recent
\* operations; undo() then returns True 20 times in a row, each time
\* restoring the next most recent snapshot, and the 21st call returns False.
C3_HistoryCap ==
    /\ (seq.phase = "ops" /\ seq.n > _max_undo_steps)
          => _undo_stack = SubSeq(seq.log, seq.n - _max_undo_steps + 1, seq.n)
    /\ (seq.phase = "undo" /\ seq.n > _max_undo_steps)
          => /\ seq.oks = Min(seq.k, _max_undo_steps)
             /\ seq.k <= _max_undo_steps
                   => /\ last = "undo"
                      /\ _current_surface = seq.log[seq.n - seq.k + 1]
                      /\ Len(_undo_stack) = _max_undo_steps - seq.k
             /\ seq.k = _max_undo_steps + 1
                   => /\ last = "undo_empty"
                      /\ _undo_stack = <<>>
                      /\ _current_surface = seq.log[seq.n - _max_undo_steps + 1]

\* The 21st undo after a run of more than 20 operations.
C3_Witness ==
    /\ seq.phase = "undo" /\ seq.n > _max_undo_steps
    /\ seq.k = _max_undo_steps + 1
    /\ last = "undo_empty"

-----------------------------------------------------------------------------
(* Claims checked under SpecBrush.                                         *)

\* C11: one brush drag (press, drag-begin, drag-updates, drag-end) pushes
\* exactly one undo snapshot, before its segments, so that one undo() after
\* the release restores the surface as it was before the press.
C11_StrokeOneUndoStep ==
    /\ stroke.phase \in {"released", "undone"} => stroke.pushes = 1
    /\ stroke.phase = "undone" => _current_surface = stroke.pre

-----------------------------------------------------------------------------
(* Claims checked under SpecStamp.                                         *)

\* The surface pre with the floating selection data, if there is one,
\* painted over it at pos.
Merged(pre, data, pos) ==
    IF data = None \/ pre = None THEN pre
    ELSE [pre EXCEPT !.px = [p \in DOMAIN pre.px |->
             LET f == PixelAt(data, p[1] - pos[1], p[2] - pos[2])
             IN  IF f = "clear" THEN pre.px[p] ELSE f]]

\* C16: add_text with an empty text leaves the authoritative surface, the
\* floating selection and both history stacks unchanged.
C16_EmptyTextIsNoOp ==
    [][last' = "add_text_empty"
         => /\ _current_surface' = _current_surface
            /\ _floating_selection_data' = _floating_selection_data
            /\ _floating_selection_position' = _floating_selection_position
            /\ _undo_stack' = _undo_stack
            /\ _redo_stack' = _redo_stack]_vars

\* C17: a read of current_image changes no field of the engine; with a
\* floating selection it returns the authoritative surface with the float
\* painted over it at its position, with none the authoritative surface.
C17_ReadIsNonMutating ==
    [][last' = "current_image"
         => /\ engine' = engine
            /\ ret' = Merged(_current_surface, _floating_selection_data,
                             _floating_selection_position)]_vars

\* A read that returned a composite differing from the authoritative
\* surface, on a document with history.
C17_Witness ==
    /\ last = "current_image"
    /\ _floating_selection_data # None
    /\ ret # _current_surface
    /\ _undo_stack # <<>>

\* The resize_canvas calls C18 is about: anchor (left, top), growing in both
\* directions, on an engine that holds an image.
C18_Grown ==
    /\ rt.phase = "resize" /\ rt.pre # None
    /\ rt.args[3] = <<"left", "top">>
    /\ rt.args[1] > rt.pre.w /\ rt.args[2] > rt.pre.h

\* C18: resize_canvas with anchor (left, top) from W x H to W' x H', W' > W
\* and H' > H, yields a W' x H' surface whose pixel (i, j) is the old pixel
\* (i, j) for i < W, j < H and fill_color everywhere else.
C18_ResizeKeepsOldPixels ==
    C18_Grown
        => /\ _current_surface.w = rt.args[1] /\ _current_surface.h = rt.args[2]
           /\ \A p \in Coords(rt.args[1], rt.args[2]) :
                 _current_surface.px[p] =
                     IF p[1] < rt.pre.w /\ p[2] < rt.pre.h THEN rt.pre.px[p]
                     ELSE rt.args[4]

\* C18, amended: the pixel (i, j) for i < W, j < H is the old pixel (i, j),
\* of the surface with a pending floating selection merged, composited over
\* fill_color: the old pixel where it is opaque, fill_color where it is
\* transparent.
C18_ResizeCompositesOverFill ==
    C18_Grown
        => LET old == Merged(rt.pre, rt.data, rt.pos)
           IN  /\ _current_surface.w = rt.args[1] /\ _current_surface.h = rt.args[2]
               /\ \A p \in Coords(rt.args[1], rt.args[2]) :
                     _current_surface.px[p] =
                         IF p[1] < old.w /\ p[2] < old.h /\ old.px[p] # "clear"
                         THEN old.px[p]
                         ELSE rt.args[4]
               /\ _floating_selection_data = None

\* A white canvas grown with an opaque fill colour.
C18_Witness ==
    /\ C18_Grown /\ last = "resize_canvas"
    /\ rt.args[4] = "red"
    /\ rt.pre.px[<<0, 0>>] = "white"

\* C19: cut_selection called while a floating selection exists composites
\* that float onto the surface, pushes exactly one snapshot, taken after the
\* merge and before the extraction, and extracts the rect from the merged
\* surface; an undo() after it restores the surface with the prior float
\* merged.
C19_CutMergesPriorFloat ==
    LET m == Merged(rt.pre, rt.data, rt.pos)
    IN  /\ (rt.phase = "cut" /\ rt.pre # None /\ rt.data # None)
              => /\ _undo_stack = Append(rt.undo, m)
                 /\ \A p \in DOMAIN m.px :
                       _current_surface.px[p] = IF InRect(p, rt.box) THEN "clear" ELSE m.px[p]
                 /\ \A q \in (0 .. rt.box[3] - 1) \X (0 .. rt.box[4] - 1) :
                       _floating_selection_data.px[q] =
                           PixelAt(m, rt.box[1] + q[1], rt.box[2] + q[2])
        /\ (rt.phase = "cut_undone" /\ rt.pre # None /\ rt.data # None)
              => /\ _current_surface = m
                 /\ _floating_selection_data = None
                 /\ _undo_stack = rt.undo

\* A cut, then undone, whose prior float changed the surface when merged.
C19_Witness ==
    /\ rt.phase = "cut_undone" /\ rt.pre # None /\ rt.data # None
    /\ Merged(rt.pre, rt.data, rt.pos) # rt.pre

\* C20: set_floating_selection(surface, x, y) merges a prior float into the
\* authoritative surface, pushes exactly one snapshot, and makes surface
\* the floating selection at (x, y), changing the authoritative surface no
\* further; undo() right afterwards discards the new float and leaves the
\* authoritative surface as the snapshot has it.
C20_SetFloatingSelection ==
    LET m == Merged(rt.pre, rt.data, rt.pos)
    IN  /\ (rt.phase = "set" /\ rt.pre # None)
              => /\ _current_surface = m
                 /\ _undo_stack = Append(rt.undo, m)
                 /\ _floating_selection_data = rt.args[1]
                 /\ _floating_selection_position = <<rt.args[2], rt.args[3]>>
        /\ (rt.phase = "set_undone" /\ rt.pre # None)
              => /\ _floating_selection_data = None
                 /\ _current_surface = m
                 /\ _undo_stack = rt.undo

\* A paste-in over a prior float that changed the surface, then undone.
C20_Witness ==
    /\ rt.phase = "set_undone" /\ rt.pre # None /\ rt.data # None
    /\ Merged(rt.pre, rt.data, rt.pos) # rt.pre

-----------------------------------------------------------------------------
(* Claims checked under Spec: paste and crop.                              *)

\* C21: paste_selection with a floating selection pending paints it onto the
\* authoritative surface at its stored position, clears the floating
\* selection and its position, and leaves the undo stack and the redo stack
\* as they were.
C21_PasteCompositesWithoutSnapshot ==
    [][(/\ last' = "paste_selection"
        /\ _current_surface # None
        /\ _floating_selection_data # None)
         => /\ _current_surface' = Merged(_current_surface, _floating_selection_data,
                                          _floating_selection_position)
            /\ _floating_selection_data' = None
            /\ _floating_selection_position' = <<>>
            /\ _undo_stack' = _undo_stack
            /\ _redo_stack' = _redo_stack]_vars

\* A paste of the float a cut lifted, the cut's snapshot still the only one.
C21_Witness ==
    /\ last = "paste_selection" /\ rt.phase = "pasted"
    /\ rt.pre # None
    /\ _floating_selection_data = None
    /\ _undo_stack = <<rt.pre>> /\ _redo_stack = <<>>

\* C22: crop mode is entered only by start_crop and left only by apply_crop
\* or by cancel_crop (which on_drag_end calls for a new select drag); after
\* cancel_crop, and after an apply_crop that cropped, crop mode is off, the
\* marked rect is cleared and the pan offset is (0, 0); cancel_crop changes
\* neither the authoritative surface nor a history stack.
C22_CropStateMachine ==
    [][/\ (~_is_cropping /\ _is_cropping') => last' = "start_crop"
       /\ (_is_cropping /\ ~_is_cropping')
             => last' \in {"apply_crop", "apply_crop_panned", "cancel_crop",
                           "on_drag_end_select"}
       /\ last' \in {"apply_crop", "apply_crop_panned", "cancel_crop"}
             => /\ ~_is_cropping'
                /\ _selection_box' = <<>>
                /\ _crop_pan_offset' = <<0, 0>>
       /\ last' = "cancel_crop"
             => /\ _current_surface' = _current_surface
                /\ _undo_stack' = _undo_stack
                /\ _redo_stack' = _redo_stack]_vars

\* A crop applied after the image was panned under the frame.
C22_Witness ==
    /\ last = "apply_crop_panned"
    /\ ~_is_cropping
    /\ _selection_box = <<>>
    /\ _crop_pan_offset = <<0, 0>>

\* C23: after start_crop on an image no floating selection is pending, the
\* float that was pending is merged into the authoritative surface, crop
\* mode is on and the pan offset is (0, 0); the undo stack is as it was,
\* and a marked rect exists afterwards only if the same one existed before.
C23_StartCropCommitsFloat ==
    (rt.phase = "crop" /\ last = "start_crop" /\ rt.pre # None)
        => /\ _floating_selection_data = None
           /\ _floating_selection_position = <<>>
           /\ _current_surface = Merged(rt.pre, rt.data, rt.pos)
           /\ _is_cropping
           /\ _crop_pan_offset = <<0, 0>>
           /\ _undo_stack = rt.undo
           /\ _selection_box \in {<<>>, rt.box}

\* start_crop with a floating selection pending on an image.
C23_Witness ==
    /\ rt.phase = "crop" /\ last = "start_crop"
    /\ rt.pre # None /\ rt.data # None
    /\ _current_surface # rt.pre

\* C32: the floating selection's pixels and its position are both set or
\* both unset.
C32_FloatDataAndPositionTogether ==
    (_floating_selection_data = None) <=> (_floating_selection_position = <<>>)

\* A floating selection lifted by a cut and then moved.
C32_Witness ==
    /\ last = "move_floating_selection"
    /\ _floating_selection_data # None
    /\ _floating_selection_position = <<1, 0>>
    /\ _undo_stack # <<>>

-----------------------------------------------------------------------------
(* Claims checked under SpecSize.                                          *)

\* C24: the authoritative surface, when there is one, is at least one pixel
\* wide and one pixel high.
C24_SurfaceAtLeastOnePixel ==
    _current_surface # None => _current_surface.w >= 1 /\ _current_surface.h >= 1

\* The offset of C25 on one axis: 0 for left and top, new_size - old_size
\* for right and bottom, else the floor of half the difference.
C25_Offset(anchor, old_size, new_size) ==
    IF anchor \in {"left", "top"} THEN 0
    ELSE IF anchor \in {"right", "bottom"} THEN new_size - old_size
    ELSE CHOOSE q \in -(MaxDim + 1) .. (MaxDim + 1) :
             2 * q <= new_size - old_size /\ new_size - old_size < 2 * q + 2

\* C25: after resize_canvas the old surface lies in the new one at the
\* offset that C25_Offset gives for each axis, also when the canvas shrinks:
\* each pixel of the new surface is the old surface's pixel that far to the
\* left and above, over the fill colour.
C25_ResizeAnchorOffset ==
    (rt.phase = "resize" /\ last = "resize_canvas" /\ rt.pre # None)
        => LET old == Merged(rt.pre, rt.data, rt.pos)
               width == IF rt.args[1] < 1 THEN 1 ELSE rt.args[1]
               height == IF rt.args[2] < 1 THEN 1 ELSE rt.args[2]
               offset_x == C25_Offset(rt.args[3][1], old.w, width)
               offset_y == C25_Offset(rt.args[3][2], old.h, height)
           IN  /\ _current_surface.w = width /\ _current_surface.h = height
               /\ \A p \in Coords(width, height) :
                     _current_surface.px[p] =
                         Over(PixelAt(old, p[1] - offset_x, p[2] - offset_y), rt.args[4])

\* A canvas shrunk by one pixel about its centre: the offset is -1, and the
\* pixel that was second from the left is now the first.
C25_Witness ==
    /\ rt.phase = "resize" /\ last = "resize_canvas" /\ rt.pre # None
    /\ rt.args[3][1] = "center"
    /\ rt.pre.w = 2 /\ _current_surface.w = 1
    /\ rt.pre.px[<<0, 0>>] = "red" /\ rt.pre.px[<<1, 0>>] = "white"
    /\ _current_surface.px[<<0, 0>>] = "white"

-----------------------------------------------------------------------------
(* Claims checked under SpecCap: the sizes of the history stacks.          *)

\* C27: the undo stack and the redo stack hold at most _max_undo_steps
\* snapshots each, and at most _max_undo_steps together.
C27_StacksWithinCap ==
    /\ Len(_undo_stack) <= _max_undo_steps
    /\ Len(_redo_stack) <= _max_undo_steps
    /\ Len(_undo_stack) + Len(_redo_stack) <= _max_undo_steps

\* A run longer than the cap, part of it undone: the two stacks hold
\* _max_undo_steps snapshots together.
C27_Witness ==
    /\ seq.n > _max_undo_steps
    /\ last = "undo"
    /\ _redo_stack # <<>> /\ _undo_stack # <<>>
    /\ Len(_undo_stack) + Len(_redo_stack) = _max_undo_steps

-----------------------------------------------------------------------------
(* Claims checked under SpecTools.                                         *)

\* C28: set_brush_size, set_brush_color, set_text_size and set_font_path
\* leave the authoritative surface, the floating selection and its
\* position, the marked rect and both history stacks as they were.
C28_SettersChangeOnlyTheSetting ==
    [][last' \in {"set_brush_size", "set_brush_color", "set_text_size", "set_font_path"}
         => /\ _current_surface' = _current_surface
            /\ _floating_selection_data' = _floating_selection_data
            /\ _floating_selection_position' = _floating_selection_position
            /\ _selection_box' = _selection_box
            /\ _undo_stack' = _undo_stack
            /\ _redo_stack' = _redo_stack]_vars

-----------------------------------------------------------------------------
(* Claims checked under SpecHandle.                                        *)

\* C29: once a drag of a canvas resize handle with at least one drag-update
\* event is released, it has pushed exactly one undo snapshot, and an undo()
\* right after the release restores the surface as it was before the drag.
C29_HandleDragOneUndoStep ==
    (stroke.kind = "resize" /\ stroke.segments >= 1)
        => /\ stroke.phase = "released" => stroke.pushes = 1
           /\ stroke.phase = "undone" => _current_surface = stroke.pre

-----------------------------------------------------------------------------
(* Claims checked under SpecUi.                                            *)

\* C26: whenever crop mode is on, a marked rect exists.
C26_CropModeHasMarkedRect ==
    _is_cropping => _selection_box # <<>>

\* C30: a floating selection and crop mode are never active together.
C30_FloatAndCropExclusive ==
    ~(_is_cropping /\ _floating_selection_data # None)

\* C33: the Delete key, pressed while a floating selection exists, discards
\* the float and leaves the authoritative surface and both history stacks
\* as they were; pressed with a marked rect and no float, it clears the rect
\* to transparent, pushes one undo snapshot, and leaves no floating
\* selection and no marked rect.
C33_DeleteKey ==
    [][last' = "on_key_delete"
         => /\ _floating_selection_data # None
                 => /\ _floating_selection_data' = None
                    /\ _current_surface' = _current_surface
                    /\ _undo_stack' = _undo_stack
                    /\ _redo_stack' = _redo_stack
            /\ (_floating_selection_data = None /\ _selection_box # <<>>)
                 => /\ _current_surface' =
                           ClearRect(_current_surface, _selection_box[1], _selection_box[2],
                                     _selection_box[3], _selection_box[4])
                    /\ _undo_stack' = Append(_undo_stack, _current_surface)
                    /\ _floating_selection_data' = None
                    /\ _selection_box' = <<>>]_vars

-----------------------------------------------------------------------------
(* Claims checked under SpecManager.                                       *)

\* C34: the active tool starts as select, is one of VALID_TOOLS after every
\* step, and the assignment of a name outside VALID_TOOLS leaves it as it
\* was.
C34_ToolValidated ==
    /\ _current_tool = "select"
    /\ [][/\ _current_tool' \in {"select", "crop", "text", "brush", "move"}
          /\ last' = "set_current_tool_unknown" => _current_tool' = _current_tool]_vars

\* A name that is no tool, assigned while the brush is active.
C34_Witness ==
    /\ last = "set_current_tool_unknown"
    /\ _current_tool = "brush"

====
